---------------------------- MODULE Spec2Model ----------------------------
(***************************************************************************)
(* Model of the alpha-DS-mixture calibration routine optimal_m             *)
(* (src/alpha_DS_calibration.py) and of its payoff helpers.                *)
(*                                                                         *)
(* Units.  Stock closes, lattice values S1, strikes, bids and asks are     *)
(* integers counting tenths (one decimal); S1_min and S1_max are whole     *)
(* price units; alpha counts tenths of the interval [0,1]; the Mobius      *)
(* weights m count multiples of 0.0001, so epsilon is 1 and the            *)
(* normalisation constant 1 is 10000.  Python's 0-based state index i is   *)
(* kept as a value; the lattice is the 1-based sequence S1, so the code's  *)
(* S1[i] is S1[i + 1] here.                                                *)
(*                                                                         *)
(* Libraries.  pandas, numpy, itertools/more_itertools, pyomo and the      *)
(* bonmin solver are modelled by what the calls made here do: read_csv     *)
(* hands over a table or raises, np.arange builds start + i*step or raises *)
(* on a zero step, combinations() runs its index algorithm, the solver     *)
(* reports a termination condition and, when optimal, loads a point that   *)
(* satisfies the declared bounds and constraints.  The objective value     *)
(* opt_E is a real fixed by the weights through c_calls, c_puts and c_err; *)
(* it is not tracked.                                                      *)
(*                                                                         *)
(* Doubles.  All quantities are exact rationals.  A midpoint that is an    *)
(* exact rounding tie is rounded half to even when the step is a dyadic    *)
(* rational (the arithmetic is then exact); otherwise the rounding errors  *)
(* of the double arithmetic decide and either neighbour is allowed.        *)
(***************************************************************************)
EXTENDS Integers, Sequences, FiniteSets

\* ------------------------------------------------------------ bounds ----
\* largest n of the full calibration run (Spec)
MaxN == 2
\* largest n of the discretizer runs (SpecLattice)
MaxLatticeN == 12
\* largest n of the runs up to the optimisation model (SpecSubsets)
MaxSubsetN == 4
\* largest number of rows of a quote table
MaxRows == 1
\* how far below 0 the argument n goes (n <= 0 is a bad run configuration)
BelowZero == 1
\* largest number of states of a lattice handed to the payoff evaluator
MaxStates == 2

\* ------------------------------------------------- program constants ----
\* epsilon = 0.0001, in units of 0.0001
Epsilon == 1
\* the right-hand side 1 of the normalisation constraint, in units of 0.0001
One == 10000

VARIABLES
    pc,            \* position in optimal_m, or the payoff evaluation
    n,             \* argument n
    alpha,         \* argument alpha, in tenths
    stock,         \* the 'Close' column read from file_stock
    S1_min,        \* round(min(STOCK_stock), 0)
    S1_max,        \* round(max(STOCK_stock), 0)
    S1,            \* the price lattice, in tenths
    I_singletons,  \* list(range(n))
    r,             \* size of the combinations powerset() is generating
    indices,       \* index tuple of the combination generated next
    pw,            \* the subsets generated so far
    d_pw,          \* dict index -> subset
    calls,         \* the call quote table
    puts,          \* the put quote table
    alpha_gamble_calls,
    alpha_gamble_puts,
    model,         \* the optimisation model: parameters and variable bounds
    status,        \* termination condition reported by the solver
    solves,        \* number of solver invocations
    m,             \* values of model.m loaded by the solver
    result,        \* the returned tuple, or NoResult
    err,           \* the exception that ended the call, or "none"
    arg_S,         \* payoff evaluation: subset S
    arg_K,         \* payoff evaluation: strike K
    arg_S1,        \* payoff evaluation: lattice S1
    payoff         \* payoff evaluation: the four results

vars == <<pc, n, alpha, stock, S1_min, S1_max, S1, I_singletons, r, indices,
          pw, d_pw, calls, puts, alpha_gamble_calls, alpha_gamble_puts, model,
          status, solves, m, result, err, arg_S, arg_K, arg_S1, payoff>>

payoffVars == <<arg_S, arg_K, arg_S1, payoff>>
stockVars == <<stock, S1_min, S1_max, S1>>
subsetVars == <<I_singletons, r, indices, pw, d_pw>>
quoteVars == <<calls, puts>>
gambleVars == <<alpha_gamble_calls, alpha_gamble_puts>>
solverVars == <<model, status, solves, m, result>>

\* ------------------------------------------------------------ helpers ---
Max2(a, b) == IF a >= b THEN a ELSE b

SetMax(T) == CHOOSE x \in T : \A y \in T : y <= x

SetMin(T) == CHOOSE x \in T : \A y \in T : x <= y

Range(s) == {s[k] : k \in 1..Len(s)}

RECURSIVE Pow2(_)
Pow2(k) == IF k <= 0 THEN 1 ELSE 2 * Pow2(k - 1)

Gcd(a, b) == SetMax({g \in 1..Max2(a, b) : a % g = 0 /\ b % g = 0})

IsPow2(x) == \E k \in 0..x : Pow2(k) = x

\* floor(num / den) and the remainder, den > 0
FloorDiv(num, den) == num \div den

\* ceil(num / den), den > 0
CeilDiv(num, den) == (num + den - 1) \div den

\* num/den is exactly halfway between two integers
IsTie(num, den) == 2 * (num % den) = den

\* num/den rounded to the nearest integer, a tie going to the even neighbour
\* (numpy's rint, which round(x, d) of a numpy float applies to x * 10^d)
RoundHalfEven(num, den) ==
    LET q == FloorDiv(num, den)
        rem == num % den
    IN  IF 2 * rem < den THEN q
        ELSE IF 2 * rem > den THEN q + 1
        ELSE IF q % 2 = 0 THEN q ELSE q + 1

\* ------------------------------------------------------- input files ----
Malformed == [ok |-> FALSE, rows |-> <<>>]

Table(rows) == [ok |-> TRUE, rows |-> rows]

\* closing prices in tenths; 15 and 25 both round to 2
StockFiles ==
    { Malformed, Table(<<>>), Table(<<10>>), Table(<<12, 12>>),
      Table(<<10, 14>>), Table(<<15, 25>>), Table(<<10, 20>>),
      Table(<<14, 31>>), Table(<<40, 10, 22>>), Table(<<10, 110>>) }

NoResult == [returned |-> FALSE]

NoModel == [built |-> FALSE]

\* ------------------------------------------------------- discretizer ----
\* len(np.arange(S1_min, S1_max + 1, step)) with step = (S1_max - S1_min)/n,
\* for n >= 1 and S1_max > S1_min: ceil((stop - start) / step)
ArangeLen(lo, hi, k) == CeilDiv((hi + 1 - lo) * k, hi - lo)

\* faulty variant: the step taken up to the stop value, (S1_max + 1 - S1_min) / n
ArangeStepToStop(lo, hi, k) ==
    [i \in 1..ArangeLen(lo, hi, k) |-> lo * k + (i - 1) * (hi + 1 - lo)]

\* np.arange(S1_min, S1_max + 1, step): element i is S1_min + i * step; the
\* elements are kept as numerators over the denominator n
Arange(lo, hi, k) ==
    [i \in 1..ArangeLen(lo, hi, k) |-> lo * k + (i - 1) * (hi - lo)]

\* (S1_range[i+1] + S1_range[i]) / 2 in tenths is MidNum / MidDen
MidNum(rng, i) == 10 * (rng[i + 2] + rng[i + 1])

MidDen(k) == 2 * k

\* step = (S1_max - S1_min) / n is a dyadic rational: every boundary and
\* midpoint is then an exact double and rounding sees the exact value
ExactStep(lo, hi, k) == IsPow2(k \div Gcd(k, hi - lo))

\* the state indices i whose midpoint is a rounding tie that the double
\* arithmetic may resolve either way
LooseTies(lo, hi, k) ==
    IF ExactStep(lo, hi, k) THEN {}
    ELSE {i \in 0..(k - 1) : IsTie(MidNum(Arange(lo, hi, k), i), MidDen(k))}

\* S1 = [round((S1_range[i+1] + S1_range[i]) / 2, 1) for i in range(n)],
\* the loose ties in `up` rounded upwards and the others downwards
Lattice(lo, hi, k, up) ==
    LET rng == Arange(lo, hi, k)
    IN  [j \in 1..k |->
            LET i == j - 1
            IN  IF i \in LooseTies(lo, hi, k)
                THEN FloorDiv(MidNum(rng, i), MidDen(k)) + (IF i \in up THEN 1 ELSE 0)
                ELSE RoundHalfEven(MidNum(rng, i), MidDen(k))]

\* round(min(STOCK_stock), 0) and round(max(STOCK_stock), 0)
RoundedMin(rows) == RoundHalfEven(SetMin(Range(rows)), 10)

\* faulty variant: the maximum rounded upwards
RoundedMaxCeil(rows) == CeilDiv(SetMax(Range(rows)), 10)

RoundedMax(rows) == RoundHalfEven(SetMax(Range(rows)), 10)

Fail(kind) ==
    /\ pc' = "failed"
    /\ err' = kind

\* lines 85-91.  The column iterates as Python floats, so S1_min, S1_max and
\* step are Python floats: a zero divisor raises ZeroDivisionError, at line 89
\* for n = 0 and inside np.arange (line 90) for step = 0.
Discretize ==
    /\ pc = "stock"
    /\ \E file \in StockFiles :
         /\ stock' = file
         /\ \/ \* read_csv(...)['Close'] raises on a malformed table
               /\ ~file.ok
               /\ Fail("KeyError")
               /\ UNCHANGED <<S1_min, S1_max, S1>>
            \/ \* min() of an empty column raises
               /\ file.ok /\ file.rows = <<>>
               /\ Fail("EmptySeries")
               /\ UNCHANGED <<S1_min, S1_max, S1>>
            \/ \* step = (S1_max - S1_min) / 0
               /\ file.ok /\ file.rows # <<>>
               /\ n = 0
               /\ S1_min' = RoundedMin(file.rows)
               /\ S1_max' = RoundedMax(file.rows)
               /\ Fail("ZeroN")
               /\ UNCHANGED S1
            \/ \* step = 0: np.arange divides stop - start by it
               /\ file.ok /\ file.rows # <<>>
               /\ n # 0
               /\ RoundedMin(file.rows) = RoundedMax(file.rows)
               /\ S1_min' = RoundedMin(file.rows)
               /\ S1_max' = RoundedMax(file.rows)
               /\ Fail("ZeroStep")
               /\ UNCHANGED S1
            \/ \* n < 0: step is negative, np.arange and range(n) are empty
               /\ file.ok /\ file.rows # <<>>
               /\ RoundedMin(file.rows) < RoundedMax(file.rows)
               /\ n < 0
               /\ S1_min' = RoundedMin(file.rows)
               /\ S1_max' = RoundedMax(file.rows)
               /\ S1' = <<>>
               /\ pc' = "powerset"
               /\ UNCHANGED err
            \/ /\ file.ok /\ file.rows # <<>>
               /\ RoundedMin(file.rows) < RoundedMax(file.rows)
               /\ n >= 1
               /\ S1_min' = RoundedMin(file.rows)
               /\ S1_max' = RoundedMax(file.rows)
               /\ \E up \in SUBSET LooseTies(RoundedMin(file.rows), RoundedMax(file.rows), n) :
                    S1' = Lattice(RoundedMin(file.rows), RoundedMax(file.rows), n, up)
               /\ pc' = "powerset"
               /\ UNCHANGED err
    /\ UNCHANGED <<n, alpha, subsetVars, quoteVars, gambleVars, solverVars, payoffVars>>

\* ------------------------------------------------- subset enumerator ----
\* list(range(n))
RangeList(k) == [i \in 1..Max2(k, 0) |-> i - 1]

\* itertools.combinations: the rightmost position i (0-based) whose index is
\* not yet at its largest value i + len - r; -1 when there is none
Pivot(ind, len, size) ==
    LET movable == {i \in 0..(size - 1) : ind[i + 1] # i + len - size}
    IN  IF movable = {} THEN -1 ELSE SetMax(movable)

\* faulty variant: the later indices are not reset
AdvanceNoReset(ind, len, size) ==
    LET p == Pivot(ind, len, size)
    IN  [k \in 1..size |-> IF k - 1 = p THEN ind[k] + 1 ELSE ind[k]]

\* itertools.combinations: indices[i] += 1, then every later index is one
\* more than its left neighbour
Advance(ind, len, size) ==
    LET p == Pivot(ind, len, size)
    IN  [k \in 1..size |-> IF k - 1 < p THEN ind[k] ELSE ind[p + 1] + 1 + (k - 1 - p)]

\* list(x) for the tuple x = (pool[i] for i in indices)
Combination(pool, ind) == [k \in 1..Len(ind) |-> pool[ind[k] + 1]]

\* line 95, and the start of powerset(): combinations(s, 0) comes first
MakeSingletons ==
    /\ pc = "powerset"
    /\ I_singletons' = RangeList(n)
    /\ r' = 0
    /\ indices' = <<>>
    /\ pw' = <<>>
    /\ pc' = "combinations"
    /\ UNCHANGED <<n, alpha, stockVars, d_pw, quoteVars, gambleVars, solverVars,
                   err, payoffVars>>

\* line 96: the list comprehension takes the next tuple of
\* chain.from_iterable(combinations(s, r) for r in range(len(s) + 1))
NextSubset ==
    /\ pc = "combinations"
    /\ r <= Len(I_singletons)
    /\ pw' = Append(pw, Combination(I_singletons, indices))
    /\ IF Pivot(indices, Len(I_singletons), r) >= 0
       THEN /\ indices' = Advance(indices, Len(I_singletons), r)
            /\ r' = r
       ELSE /\ indices' = IF r + 1 <= Len(I_singletons) THEN RangeList(r + 1) ELSE <<>>
            /\ r' = r + 1
    /\ UNCHANGED <<pc, n, alpha, stockVars, I_singletons, d_pw, quoteVars,
                   gambleVars, solverVars, err, payoffVars>>

\* faulty variant: the subsets zipped in reverse
ZipDictReversed(subsets) ==
    [j \in 0..(Len(subsets) - 1) |-> subsets[Len(subsets) - j]]

\* dict(zip(I_vars, pw)) with I_vars = list(range(len(pw)))
ZipDict(subsets) == [j \in 0..(Len(subsets) - 1) |-> subsets[j + 1]]

\* lines 97-101: pw.pop(0) drops the empty subset, then the dictionary
IndexSubsets ==
    /\ pc = "combinations"
    /\ r > Len(I_singletons)
    /\ pw' = Tail(pw)
    /\ d_pw' = ZipDict(Tail(pw))
    /\ pc' = "calls"
    /\ UNCHANGED <<n, alpha, stockVars, I_singletons, r, indices, quoteVars,
                   gambleVars, solverVars, err, payoffVars>>

I_vars == DOMAIN d_pw

\* ---------------------------------------------------- payoff evaluator --
\* lines 27-28
call_payoff(i, K, lattice) == Max2(lattice[i + 1] - K, 0)

\* lines 44-45
put_payoff(i, K, lattice) == Max2(K - lattice[i + 1], 0)

\* lines 32-34: the scan of min_call from position k on
RECURSIVE MinCallScan(_, _, _, _, _)
MinCallScan(S, K, lattice, k, min_val) ==
    IF k > Len(S) THEN min_val
    ELSE MinCallScan(S, K, lattice, k + 1,
                     IF call_payoff(S[k], K, lattice) < min_val
                     THEN call_payoff(S[k], K, lattice) ELSE min_val)

\* lines 30-35: min_val starts at max(S1)
min_call(S, K, lattice) == MinCallScan(S, K, lattice, 1, SetMax(Range(lattice)))

\* lines 39-41
RECURSIVE MaxCallScan(_, _, _, _, _)
MaxCallScan(S, K, lattice, k, max_val) ==
    IF k > Len(S) THEN max_val
    ELSE MaxCallScan(S, K, lattice, k + 1,
                     IF call_payoff(S[k], K, lattice) > max_val
                     THEN call_payoff(S[k], K, lattice) ELSE max_val)

\* lines 37-42: max_val starts at 0
max_call(S, K, lattice) == MaxCallScan(S, K, lattice, 1, 0)

\* lines 49-51
RECURSIVE MinPutScan(_, _, _, _, _)
MinPutScan(S, K, lattice, k, min_val) ==
    IF k > Len(S) THEN min_val
    ELSE MinPutScan(S, K, lattice, k + 1,
                    IF put_payoff(S[k], K, lattice) < min_val
                    THEN put_payoff(S[k], K, lattice) ELSE min_val)

\* lines 47-52: min_val starts at max(S1)
min_put(S, K, lattice) == MinPutScan(S, K, lattice, 1, SetMax(Range(lattice)))

\* lines 56-58
RECURSIVE MaxPutScan(_, _, _, _, _)
MaxPutScan(S, K, lattice, k, max_val) ==
    IF k > Len(S) THEN max_val
    ELSE MaxPutScan(S, K, lattice, k + 1,
                    IF put_payoff(S[k], K, lattice) > max_val
                    THEN put_payoff(S[k], K, lattice) ELSE max_val)

\* lines 54-59: max_val starts at 0
max_put(S, K, lattice) == MaxPutScan(S, K, lattice, 1, 0)

\* ------------------------------------------------------- quote tables ---
\* quote rows (strike, bid, ask) in tenths; the last one has ask < bid
QuoteRows ==
    { [strike |-> 15, bid |-> 2, ask |-> 4],
      [strike |-> 300, bid |-> 6, ask |-> 5] }

SeqsUpTo(T, len) == UNION {[1..k -> T] : k \in 0..len}

QuoteFiles == {Malformed} \cup {Table(rows) : rows \in SeqsUpTo(QuoteRows, MaxRows)}

\* lines 106 and 110: alpha * bid + (1 - alpha) * ask, in hundredths
AlphaPrice(row) == alpha * row.bid + (10 - alpha) * row.ask

WithAlphaPrice(rows) ==
    [i \in 1..Len(rows) |->
        [strike |-> rows[i].strike, bid |-> rows[i].bid, ask |-> rows[i].ask,
         alpha_p |-> AlphaPrice(rows[i])]]

\* lines 105-106
LoadCalls ==
    /\ pc = "calls"
    /\ \E file \in QuoteFiles :
         \/ /\ ~file.ok
            /\ calls' = file
            /\ Fail("KeyError")
         \/ /\ file.ok
            /\ calls' = Table(WithAlphaPrice(file.rows))
            /\ pc' = "puts"
            /\ UNCHANGED err
    /\ UNCHANGED <<n, alpha, stockVars, subsetVars, puts, gambleVars, solverVars,
                   payoffVars>>

\* lines 109-110
LoadPuts ==
    /\ pc = "puts"
    /\ \E file \in QuoteFiles :
         \/ /\ ~file.ok
            /\ puts' = file
            /\ Fail("KeyError")
         \/ /\ file.ok
            /\ puts' = Table(WithAlphaPrice(file.rows))
            /\ pc' = "gamble_calls"
            /\ UNCHANGED err
    /\ UNCHANGED <<n, alpha, stockVars, subsetVars, calls, gambleVars, solverVars,
                   payoffVars>>

\* list(range(len(STOCK_calls))) and list(range(len(STOCK_puts)))
I_calls == 0..(Len(calls.rows) - 1)

I_puts == 0..(Len(puts.rows) - 1)

\* -------------------------------------------------------- gamble builder --
\* round(num / den, 6), in millionths
Round6(num, den) ==
    FloorDiv(num, den) * 1000000 + RoundHalfEven((num % den) * 1000000, den)

\* line 121: alpha and the payoffs are tenths, so the mixture is in hundredths
GambleCall(K, S) ==
    Round6(alpha * min_call(S, K, S1) + (10 - alpha) * max_call(S, K, S1), 100)

\* line 128
GamblePut(K, S) ==
    Round6(alpha * min_put(S, K, S1) + (10 - alpha) * max_put(S, K, S1), 100)

\* lines 117-121
GambleCalls ==
    /\ pc = "gamble_calls"
    /\ alpha_gamble_calls' =
          [ij \in I_calls \X I_vars |->
              GambleCall(calls.rows[ij[1] + 1].strike, d_pw[ij[2]])]
    /\ pc' = "gamble_puts"
    /\ UNCHANGED <<n, alpha, stockVars, subsetVars, quoteVars, alpha_gamble_puts,
                   solverVars, err, payoffVars>>

\* lines 124-128
GamblePuts ==
    /\ pc = "gamble_puts"
    /\ alpha_gamble_puts' =
          [ij \in I_puts \X I_vars |->
              GamblePut(puts.rows[ij[1] + 1].strike, d_pw[ij[2]])]
    /\ pc' = "model"
    /\ UNCHANGED <<n, alpha, stockVars, subsetVars, quoteVars, alpha_gamble_calls,
                   solverVars, err, payoffVars>>

\* ------------------------------------------------- calibration optimizer --
\* list.count
Count(list, x) == Cardinality({k \in 1..Len(list) : list[k] = x})

\* faulty variant: the two arms of the conditional swapped
BoundsSwapped(i) == IF Count(I_singletons, i) = 0 THEN Epsilon ELSE 0

\* faulty variant: the variable index taken as 1-based
BoundsOneBased(i) == IF Count(I_singletons, i - 1) = 0 THEN 0 ELSE Epsilon

\* lines 143-144: the lower bound of model.m[i] (no upper bound)
BoundsIntializer(i) == IF Count(I_singletons, i) = 0 THEN 0 ELSE Epsilon

\* faulty variant: the normalisation constraint accepted whatever it is
TrivialNormNever == FALSE

\* line 159: with no variable, sum(...) == 1 is the plain boolean False
\* instead of a relational expression, and pyo.Constraint rejects it
TrivialNorm == I_vars = {}

\* lines 131-178
BuildModel ==
    /\ pc = "model"
    /\ IF TrivialNorm
       THEN /\ Fail("TrivialConstraint")
            /\ UNCHANGED model
       ELSE /\ model' =
                 [built |-> TRUE,
                  alpha_price_calls |->
                      [i \in I_calls |-> Round6(calls.rows[i + 1].alpha_p, 100)],
                  alpha_price_puts |->
                      [i \in I_puts |-> Round6(puts.rows[i + 1].alpha_p, 100)],
                  m_lb |-> [i \in I_vars |-> BoundsIntializer(i)]]
            /\ pc' = "solve"
            /\ UNCHANGED err
    /\ UNCHANGED <<n, alpha, stockVars, subsetVars, quoteVars, gambleVars, status,
                   solves, m, result, payoffVars>>

RECURSIVE SumOver(_, _)
SumOver(f, T) ==
    IF T = {} THEN 0
    ELSE LET x == CHOOSE y \in T : TRUE IN f[x] + SumOver(f, T \ {x})

\* the points the solver is tried on: one variable carries the bulk of the
\* mass, any set of others carries epsilon each, the rest are 0
BulkWeights == {One - k * Epsilon : k \in 0..Cardinality(I_vars)}

CandidatePoints ==
    UNION { { [j \in I_vars |-> IF j = b THEN w ELSE IF j \in E THEN Epsilon ELSE 0]
                : w \in BulkWeights }
            : <<b, E>> \in {be \in I_vars \X SUBSET I_vars : be[1] \notin be[2]} }

\* the declared problem: within NonNegativeReals, the bounds of
\* BoundsIntializer (line 146) and c_norm (line 159); ec, ep and err are
\* fixed by m through the equalities c_calls, c_puts and c_err
Feasible(pt) ==
    /\ \A j \in I_vars : pt[j] >= 0 /\ pt[j] >= model.m_lb[j]
    /\ SumOver(pt, I_vars) = One

\* line 184: one blocking call of the external solver
Solve ==
    /\ pc = "solve"
    /\ solves' = solves + 1
    /\ \/ /\ status' = "optimal"
          /\ \E pt \in CandidatePoints :
               /\ Feasible(pt)
               /\ m' = pt
       \/ /\ status' \in {"infeasible", "unbounded", "maxIterations"}
          /\ UNCHANGED m
    /\ pc' = "assert"
    /\ UNCHANGED <<n, alpha, stockVars, subsetVars, quoteVars, gambleVars, model,
                   result, err, payoffVars>>

\* faulty variant: the termination condition is not looked at
AssertSkipped ==
    /\ pc = "assert"
    /\ pc' = "return"
    /\ UNCHANGED <<n, alpha, stockVars, subsetVars, quoteVars, gambleVars,
                   solverVars, err, payoffVars>>

\* line 185: pyo.assert_optimal_termination(status)
AssertOptimal ==
    /\ pc = "assert"
    /\ IF status = "optimal"
       THEN pc' = "return" /\ UNCHANGED err
       ELSE Fail("NotOptimal")
    /\ UNCHANGED <<n, alpha, stockVars, subsetVars, quoteVars, gambleVars,
                   solverVars, payoffVars>>

\* lines 188-195 (the returned opt_E is not tracked)
Return ==
    /\ pc = "return"
    /\ result' = [returned |-> TRUE, opt_m |-> m, d_pw |-> d_pw]
    /\ pc' = "returned"
    /\ UNCHANGED <<n, alpha, stockVars, subsetVars, quoteVars, gambleVars, model,
                   status, solves, m, err, payoffVars>>

Idle ==
    /\ stock = Malformed
    /\ S1_min = 0 /\ S1_max = 0 /\ S1 = <<>>
    /\ I_singletons = <<>> /\ r = 0 /\ indices = <<>> /\ pw = <<>>
    /\ d_pw = <<>>
    /\ calls = Malformed /\ puts = Malformed
    /\ alpha_gamble_calls = <<>> /\ alpha_gamble_puts = <<>>
    /\ model = NoModel /\ status = "none" /\ solves = 0 /\ m = <<>>
    /\ result = NoResult
    /\ err = "none"

IdlePayoff ==
    /\ arg_S = <<>> /\ arg_K = 0 /\ arg_S1 = <<>> /\ payoff = <<>>

\* ---------------------------------------------- discretizer runs alone --
InitLattice ==
    /\ pc = "stock"
    /\ n \in (0 - BelowZero)..MaxLatticeN
    /\ alpha = 0
    /\ Idle
    /\ IdlePayoff

NextLattice == Discretize

SpecLattice == InitLattice /\ [][NextLattice]_vars

InitSubsets ==
    /\ pc = "stock"
    /\ n \in (0 - BelowZero)..MaxSubsetN
    /\ alpha \in {0, 7}
    /\ Idle
    /\ IdlePayoff

NextSubsets ==
    \/ Discretize
    \/ MakeSingletons
    \/ NextSubset
    \/ IndexSubsets
    \/ LoadCalls
    \/ LoadPuts
    \/ GambleCalls
    \/ GamblePuts
    \/ BuildModel

SpecSubsets == InitSubsets /\ [][NextSubsets]_vars

\* ------------------------------------------- payoff evaluator runs alone --
\* positive lattice values and strikes, in tenths
PayoffPrices == {5, 10, 20}

PayoffStrikes == {1, 7, 12, 30, 50}

\* the non-empty subsets of the states of a lattice, as increasing lists
SubsetLists(len) ==
    {s \in SeqsUpTo(0..(len - 1), len) :
        /\ s # <<>>
        /\ \A k \in 1..(Len(s) - 1) : s[k] < s[k + 1]}

InitPayoff ==
    /\ pc = "payoff"
    /\ n = 0
    /\ alpha = 0
    /\ Idle
    /\ payoff = <<>>
    /\ \E len \in 1..MaxStates :
         /\ arg_S1 \in [1..len -> PayoffPrices]
         /\ arg_S \in SubsetLists(len)
    /\ arg_K \in PayoffStrikes

\* one call of each of min_call, max_call, min_put and max_put
EvaluatePayoffs ==
    /\ pc = "payoff"
    /\ payoff' = [min_call |-> min_call(arg_S, arg_K, arg_S1),
                  max_call |-> max_call(arg_S, arg_K, arg_S1),
                  min_put |-> min_put(arg_S, arg_K, arg_S1),
                  max_put |-> max_put(arg_S, arg_K, arg_S1)]
    /\ pc' = "evaluated"
    /\ UNCHANGED <<n, alpha, stockVars, subsetVars, quoteVars, gambleVars,
                   solverVars, err, arg_S, arg_K, arg_S1>>

NextPayoff == EvaluatePayoffs

SpecPayoff == InitPayoff /\ [][NextPayoff]_vars

\* ------------------------------------------------- the calibration run ---
Init ==
    /\ pc = "stock"
    /\ n \in (0 - BelowZero)..MaxN
    /\ alpha \in {0, 7}
    /\ Idle
    /\ IdlePayoff

Next ==
    \/ Discretize
    \/ MakeSingletons
    \/ NextSubset
    \/ IndexSubsets
    \/ LoadCalls
    \/ LoadPuts
    \/ GambleCalls
    \/ GamblePuts
    \/ BuildModel
    \/ Solve
    \/ AssertOptimal
    \/ Return

Spec == Init /\ [][Next]_vars

\* ------------------------------------------------------------- claims ---
\* the subsets have been generated, popped and indexed
Indexed == r > Len(I_singletons) /\ pc # "combinations"

ElementSet(list) == Range(list)

\* list a comes before list b lexicographically
LexLess(a, b) ==
    \/ \E p \in 1..Len(a) :
          /\ p <= Len(b)
          /\ \A q \in 1..(p - 1) : a[q] = b[q]
          /\ a[p] < b[p]
    \/ /\ Len(a) < Len(b)
       /\ \A q \in 1..Len(a) : a[q] = b[q]

\* C1: a returned weight vector sums to 1, has no negative entry, and gives
\* at least epsilon to every index whose subset is a singleton.
C1_WeightInvariants ==
    result.returned =>
        /\ SumOver(result.opt_m, DOMAIN result.opt_m) = One
        /\ \A j \in DOMAIN result.opt_m : result.opt_m[j] >= 0
        /\ \A j \in DOMAIN result.d_pw :
              Len(result.d_pw[j]) = 1 => result.opt_m[j] >= Epsilon

\* a result for n = 2 whose mass sits on the non-singleton subset {0,1}
C1_Witness ==
    /\ result.returned
    /\ n = 2
    /\ result.opt_m[2] > Epsilon
    /\ result.opt_m[0] = Epsilon

\* C2: for n >= 1 the map d_pw has the keys 0..2^n-2, its values are
\* non-empty duplicate-free lists over {0..n-1}, distinct keys hold distinct
\* subsets, every non-empty subset occurs, and the values cover {0..n-1}.
C2_SubsetBijection ==
    (Indexed /\ n >= 1) =>
        /\ DOMAIN d_pw = 0..(Pow2(n) - 2)
        /\ Cardinality(DOMAIN d_pw) = Pow2(n) - 1
        /\ \A j \in DOMAIN d_pw :
              /\ d_pw[j] # <<>>
              /\ ElementSet(d_pw[j]) \subseteq 0..(n - 1)
              /\ Cardinality(ElementSet(d_pw[j])) = Len(d_pw[j])
        /\ \A j, k \in DOMAIN d_pw :
              j # k => ElementSet(d_pw[j]) # ElementSet(d_pw[k])
        /\ {ElementSet(d_pw[j]) : j \in DOMAIN d_pw} = (SUBSET (0..(n - 1))) \ {{}}
        /\ UNION {ElementSet(d_pw[j]) : j \in DOMAIN d_pw} = 0..(n - 1)

\* the 15 subsets of a 4-state space have been indexed
C2_Witness == Indexed /\ n = 4 /\ Cardinality(DOMAIN d_pw) = 15

\* C3: indices follow increasing subset size and, within a size, the
\* lexicographic order of the elements; for n = 2 the map is 0 -> [0],
\* 1 -> [1], 2 -> [0,1].
C3_CanonicalOrder ==
    Indexed =>
        /\ \A j, k \in DOMAIN d_pw :
              j < k =>
                 \/ Len(d_pw[j]) < Len(d_pw[k])
                 \/ Len(d_pw[j]) = Len(d_pw[k]) /\ LexLess(d_pw[j], d_pw[k])
        /\ \A j \in DOMAIN d_pw :
              \A q \in 1..(Len(d_pw[j]) - 1) : d_pw[j][q] < d_pw[j][q + 1]
        /\ n = 2 =>
              d_pw = [j \in 0..2 |-> IF j = 0 THEN <<0>>
                                     ELSE IF j = 1 THEN <<1>> ELSE <<0, 1>>]

\* n = 3 indexed: the pair [0,2] at 4 comes before the pair [1,2] at 5
C3_Witness ==
    /\ Indexed
    /\ n = 3
    /\ d_pw[4] = <<0, 2>>
    /\ d_pw[5] = <<1, 2>>

PayoffSet(F(_, _, _)) == {F(arg_S[k], arg_K, arg_S1) : k \in 1..Len(arg_S)}

\* C4: the four scans return the minimum, respectively the maximum, of the
\* call and put payoffs over the states of S.
C4_MinMaxOfPayoff ==
    pc = "evaluated" =>
        /\ payoff.min_call = SetMin(PayoffSet(call_payoff))
        /\ payoff.max_call = SetMax(PayoffSet(call_payoff))
        /\ payoff.min_put = SetMin(PayoffSet(put_payoff))
        /\ payoff.max_put = SetMax(PayoffSet(put_payoff))

\* the three scans that do return the extremum: min_call, max_call, max_put
PayoffScansOtherThanMinPut ==
    pc = "evaluated" =>
        /\ payoff.min_call = SetMin(PayoffSet(call_payoff))
        /\ payoff.max_call = SetMax(PayoffSet(call_payoff))
        /\ payoff.max_put = SetMax(PayoffSet(put_payoff))

BadStatus == status \notin {"none", "optimal"}

\* C5: after a non-optimal termination the call ends in an error and returns
\* nothing, and the solver is invoked at most once per call: once for every
\* returned result, and not again after a failure.
C5_SolverFailure ==
    /\ [](solves <= 1)
    /\ [](result.returned => solves = 1 /\ status = "optimal")
    /\ [](BadStatus => ~result.returned /\ pc \in {"assert", "failed"})
    /\ [][(pc = "assert" /\ BadStatus)
            => (pc' = "failed" /\ err' = "NotOptimal" /\ solves' = solves
                /\ result' = NoResult)]_vars
    /\ [][pc = "failed" => UNCHANGED vars]_vars

\* an infeasible termination has ended the call after one solve
C5_Witness ==
    /\ pc = "failed"
    /\ err = "NotOptimal"
    /\ status = "infeasible"
    /\ solves = 1
    /\ ~result.returned

DegenerateRange ==
    /\ pc # "stock"
    /\ stock.ok
    /\ stock.rows # <<>>
    /\ RoundHalfEven(SetMin(Range(stock.rows)), 10)
          = RoundHalfEven(SetMax(Range(stock.rows)), 10)

\* C6: when the rounded minimum and maximum of the series coincide, the
\* discretizer ends the call with the zero-divisor error and no lattice is
\* built (nothing after it runs).
C6_DegenerateRangeFails ==
    DegenerateRange =>
        /\ pc = "failed"
        /\ err \in {"ZeroStep", "ZeroN"}
        /\ S1 = <<>>
        /\ pw = <<>>
        /\ solves = 0
        /\ ~result.returned

\* a series of identical closes has failed on the zero step, for n >= 1
C6_Witness ==
    /\ pc = "failed"
    /\ err = "ZeroStep"
    /\ n >= 1
    /\ stock.rows = <<12, 12>>
    /\ S1 = <<>>

Crossed(table) == \E k \in 1..Len(table.rows) : table.rows[k].ask < table.rows[k].bid

EmptyStock == pc # "stock" /\ stock.ok /\ stock.rows = <<>>

InvalidQuotes ==
    \/ calls.ok /\ (calls.rows = <<>> \/ Crossed(calls))
    \/ puts.ok /\ (puts.rows = <<>> \/ Crossed(puts))

\* C7 as stated: on an empty price or quote table, a row with ask < bid, or
\* n <= 0, the solver is never invoked and nothing is returned.
C7_InvalidInputRejected ==
    (EmptyStock \/ InvalidQuotes \/ n <= 0) =>
        /\ solves = 0
        /\ ~result.returned

\* C7 amended: an empty price table ends the call at once, n <= 0 ends it
\* before the solver is invoked, and nothing is returned; the content of the
\* quote tables never ends the call: with n >= 1, readable tables and a
\* non-degenerate price range only a non-optimal solve does.
C7_Amended ==
    /\ EmptyStock =>
          pc = "failed" /\ err = "EmptySeries" /\ solves = 0 /\ ~result.returned
    /\ n <= 0 =>
          /\ solves = 0
          /\ ~result.returned
          /\ pc \notin {"solve", "assert", "return", "returned"}
          /\ pc = "failed" =>
                err \in {"KeyError", "EmptySeries", "ZeroN", "ZeroStep",
                         "TrivialConstraint"}
    /\ (pc = "failed" /\ n >= 1 /\ S1 # <<>> /\ err # "KeyError") => err = "NotOptimal"

\* n = -1 got as far as the normalisation constraint and failed there, the
\* solver untouched, although a crossed call quote had been read
C7_Witness ==
    /\ n < 0
    /\ pc = "failed"
    /\ err = "TrivialConstraint"
    /\ calls.ok /\ Crossed(calls)
    /\ solves = 0

\* a result was returned from a crossed quote row and an empty put table
C7_CrossedReachesResult ==
    ~(result.returned /\ calls.ok /\ Crossed(calls) /\ puts.ok /\ puts.rows = <<>>)

Discretized == pc = "powerset" /\ n >= 1

\* C8 as stated: for n = 1 the single lattice value is the midpoint of
\* S1_min and S1_max + 1, i.e. (S1_min + S1_max + 1) / 2 to one decimal.
C8_MidpointToMaxPlusOne ==
    (Discretized /\ n = 1) =>
        /\ Len(S1) = 1
        /\ S1[1] = RoundHalfEven(10 * (S1_min + S1_max + 1), 2)

\* C8 amended: for n = 1 the single lattice value is the midpoint of S1_min
\* and S1_max, i.e. (S1_min + S1_max) / 2, which has one decimal.
C8_Amended ==
    (Discretized /\ n = 1) =>
        /\ Len(S1) = 1
        /\ 2 * S1[1] = 10 * (S1_min + S1_max)

\* the series 1.4, 3.1 (rounded 1 and 3) discretized with n = 1
C8_Witness ==
    /\ Discretized
    /\ n = 1
    /\ S1_min = 1 /\ S1_max = 3
    /\ Len(S1) = 1

\* C9: for n >= 1 and S1_max > S1_min the lattice has n values and is
\* strictly increasing.  Stated over the inputs whose roundings do not hang
\* on the double arithmetic, so that a violation is one of every build.
C9_LatticeStrictlyIncreasing ==
    (Discretized /\ LooseTies(S1_min, S1_max, n) = {}) =>
        /\ S1_max > S1_min
        /\ Len(S1) = n
        /\ \A i \in 1..(Len(S1) - 1) : S1[i] < S1[i + 1]

\* the lattice always has n values and never decreases
LatticeLengthAndOrder ==
    Discretized =>
        /\ Len(S1) = n
        /\ \A i \in 1..(Len(S1) - 1) : S1[i] <= S1[i + 1]

\* C10: the lower bound of m[j] is epsilon exactly when d_pw[j] is a
\* singleton and 0 otherwise: membership of j in range(n) picks exactly the
\* indices of the singleton subsets.
C10_EpsilonBoundsOnSingletons ==
    model.built =>
        /\ DOMAIN model.m_lb = DOMAIN d_pw
        /\ \A j \in DOMAIN d_pw :
              /\ model.m_lb[j] = Epsilon <=> Len(d_pw[j]) = 1
              /\ model.m_lb[j] = 0 <=> Len(d_pw[j]) # 1
        /\ {j \in DOMAIN d_pw : Count(I_singletons, j) # 0}
              = {j \in DOMAIN d_pw : Len(d_pw[j]) = 1}

\* the model for n = 4: index 3 is the last singleton, index 4 the first pair
C10_Witness ==
    /\ model.built
    /\ n = 4
    /\ model.m_lb[3] = Epsilon /\ d_pw[3] = <<3>>
    /\ model.m_lb[4] = 0 /\ d_pw[4] = <<0, 1>>

=============================================================================
